---- MODULE Spec2Model ----
(***************************************************************************)
(* A state-machine model of tobii_calibration.TobiiHelper                  *)
(* (src/tobii_calibration/tobii_calibration.py): the helper's fields, the  *)
(* vendor SDK's and the GUI toolkit's visible state, and one action per    *)
(* step of the public operations setEyeTracker, setMonitor, runTrackBox,   *)
(* runValidation and runFullCalibration.                                   *)
(*                                                                         *)
(* Python values are written as strings ("None", "5.0", "(1920, 1080)");   *)
(* the operators below give them the meaning the Python code gives them    *)
(* (isinstance, ==, is, len).                                              *)
(***************************************************************************)
EXTENDS Integers, Sequences, FiniteSets, TLC

None == "None"

(***************************************************************************)
(* Bounds of the model and constants of the program.                       *)
(***************************************************************************)
\* src line 91: `while not allTrackers and loopCount < 50`
MaxLoopCount == 50
\* the SDK reports a failed collect_data at most this often in one round
MaxRetries == 1
\* the operator selects at most this many points on one results screen
MaxSelected == 2

(***************************************************************************)
(* Arguments of setEyeTracker and the SDK's discovery responses.           *)
(***************************************************************************)
\* serialString: omitted, three serial numbers, and a value that is no str
SerialArgs == {None, "TPA", "TPB", "TPX", "<int 42>"}

\* isinstance(serialString, str)
IsStr(a) == a \in {"TPA", "TPB", "TPX", "mon"}

\* what tobii.find_all_eyetrackers() can return: the serial numbers found
DiscoveryResults == {<< >>, <<"TPA">>, <<"TPB", "TPA">>}

(***************************************************************************)
(* Arguments of setMonitor and the toolkit's answers.                      *)
(***************************************************************************)
NameArgs == {None, "mon", "<int 42>"}

DimArgs == {None, "(1920, 1080)", "[1920, 1080]", "(1920,)", "('a', 1080)",
            "(0, 1080)", "(1920, -1)"}

\* the calls of setMonitor that are tried: the two well-formed ones, and every
\* ill-formed value of one argument beside each value of the other
MonitorCalls ==
    {<<None, None>>, <<"mon", "(1920, 1080)">>}
    \cup {<<n, d>> : n \in {None, "mon"}, d \in DimArgs \ {None, "(1920, 1080)"}}
    \cup {<<"<int 42>", d>> : d \in DimArgs}

\* isinstance(dimensions, tuple)
IsTuple(d) == d \in {"(1920, 1080)", "(1920,)", "('a', 1080)", "(0, 1080)",
                     "(1920, -1)"}

\* the elements of a tuple: <<is it a numbers.Number, its value>>
TupleElems(d) ==
    CASE d = "(1920, 1080)" -> << <<TRUE, 1920>>, <<TRUE, 1080>> >>
      [] d = "(1920,)"      -> << <<TRUE, 1920>> >>
      [] d = "('a', 1080)"  -> << <<FALSE, 0>>, <<TRUE, 1080>> >>
      [] d = "(0, 1080)"    -> << <<TRUE, 0>>, <<TRUE, 1080>> >>
      [] d = "(1920, -1)"   -> << <<TRUE, 1920>>, <<TRUE, 0 - 1>> >>
      [] OTHER              -> << >>

\* monitors.getAllMonitors(): the names of the monitors the toolkit knows
MonitorLists == {<< >>, <<"testMonitor">>}

\* the default screen pyglet reports, as (width, height)
DefaultScreen == <<1280, 720>>

(***************************************************************************)
(* Gaze samples the SDK delivers (their identity is all the slot needs).   *)
(***************************************************************************)
Samples == {"g1", "g2"}


(***************************************************************************)
(* State.                                                                  *)
(***************************************************************************)
VARIABLES
    \* TobiiHelper's fields (__init__, lines 54-76)
    eyetracker,     \* serial number of the selected device, or None
    monitorName,    \* None or the monitor's name
    win,            \* << >> for None, or <<width, height>> of the monitor
    tracking,       \* BOOLEAN
    gazeData,       \* None or the sample in the slot
    calibration,    \* None or "ScreenBasedCalibration"
    \* the SDK's and the toolkit's side
    subscribed,     \* a gaze-data subscription is active in the SDK
    inCalibMode,    \* the tracker is in calibration mode
    window,         \* the window in use: "none", "open" or "closed"
    ownWindow,      \* the routine opened the window itself, in a with-block
    lastDelivered,  \* the sample of the latest callback delivery, or None
    \* control
    pc,             \* "idle", a position inside an operation, "returned", "exited"
    op,             \* the public operation called and its arguments
    result,         \* "-" while running, "ok", the exception raised, or "quit"
    \* locals of setEyeTracker and setMonitor
    loopCount, allTrackers, findCalls, allMonitors,
    \* locals of runFullCalibration, runValidation and the calibration sequencer
    fullCalib,      \* runTrackBox / runValidation were called by runFullCalibration
    calibDict,      \* the shuffled OrderedDict, as a sequence of <<key, point>>
    pointDict,      \* runValidation's dict of points
    redoCalDict,    \* the dict of the points of the current round
    pointIdx,       \* i of __getCalibrationData's loop, counted from 1
    calibResult,    \* what compute_and_apply returned
    discardIdx,     \* position in the discard loop (lines 1341-1344)
    holdRedoDict,   \* the results screen's list of selected entries
    holdColorPoints,\* the results screen's list of highlighted point numbers
    \* locals of the two draw loops
    rd,             \* what this iteration has read from the slot so far
    \* what has been observed of the calls of the running operation
    sdkCall,        \* the SDK call the latest step made, "-" if it made none
    gazeLast,       \* the latest subscribe_to / unsubscribe_from of the operation
    calLast,        \* the latest calibration call of the operation
    nEnter, nLeave, \* enter_ / leave_calibration_mode calls of the operation
    collected,      \* the points collect_data was called for in this round
    collectCalls,   \* the collect_data calls of this round
    retries,        \* those of them that did not report success
    discarded,      \* the points discard_data was called for since the last compute
    selected,       \* the keys pressed an odd number of times on the results screen
    sampleFresh,    \* a sample was delivered since the latest subscribe_to
    keysSeen,       \* the keys the latest step got from the keyboard
    \* a helper function applied on its own
    fnIn,           \* the argument it is given
    fnOut,          \* what it returns or raises
    objectList,     \* the aggregator list __smoothing is called with
    history,        \* the samples __smoothing has been called with so far
    applied         \* the number of items the smoothing function was applied to

cfgVars    == <<eyetracker, monitorName, win>>
helperVars == <<cfgVars, tracking, gazeData, calibration>>
envVars    == <<subscribed, inCalibMode, window, ownWindow, lastDelivered>>
ctlVars    == <<pc, op, result>>
findVars   == <<loopCount, allTrackers, findCalls, allMonitors>>
dictVars   == <<fullCalib, calibDict, pointDict>>
seqVars    == <<redoCalDict, pointIdx, calibResult, discardIdx>>
holdVars   == <<holdRedoDict, holdColorPoints>>
calVars    == <<dictVars, seqVars, holdVars>>
roundObs   == <<collected, collectCalls, retries>>
calObs     == <<calLast, nEnter, nLeave, roundObs, discarded, selected>>
fnVars     == <<fnIn, fnOut, objectList, history, applied>>
keyObs     == <<sampleFresh, keysSeen>>
vars == <<helperVars, envVars, ctlVars, findVars, calVars, rd, sdkCall, gazeLast,
          calObs, fnVars, keyObs>>

NoOp == [name |-> "-", arg1 |-> None, arg2 |-> None]
NoResult == [status |-> "-", drawable |-> TRUE, mean |-> <<4, 4>>]
NoArgument == [fn |-> "-", kind |-> "-", x |-> 0, y |-> 0]
NoOutcome == [status |-> "-", value |-> << >>]

\* lines 54-76 but for the tracker and the monitor: nothing is subscribed,
\* entered or open, and no operation is running
NothingRunning ==
    /\ tracking = FALSE /\ gazeData = None /\ calibration = None
    /\ subscribed = FALSE /\ inCalibMode = FALSE
    /\ window = "none" /\ ownWindow = FALSE /\ lastDelivered = None
    /\ pc = "idle" /\ op = NoOp /\ result = "-"
    /\ loopCount = 0 /\ allTrackers = << >> /\ findCalls = 0 /\ allMonitors = << >>
    /\ fullCalib = FALSE /\ calibDict = << >> /\ pointDict = << >>
    /\ redoCalDict = << >> /\ pointIdx = 0 /\ calibResult = NoResult
    /\ discardIdx = 0 /\ holdRedoDict = << >> /\ holdColorPoints = << >>
    /\ rd = << >>
    /\ sdkCall = "-" /\ gazeLast = "-" /\ calLast = "-"
    /\ nEnter = 0 /\ nLeave = 0 /\ collected = {} /\ collectCalls = 0
    /\ retries = 0 /\ discarded = << >> /\ selected = {}
    /\ sampleFresh = FALSE /\ keysSeen = {}

\* TobiiHelper.__init__ (lines 54-76)
Init ==
    /\ eyetracker = None /\ monitorName = None /\ win = << >>
    /\ NothingRunning
    /\ fnIn = NoArgument /\ fnOut = NoOutcome
    /\ objectList = << >> /\ history = << >> /\ applied = 0

\* the locals of the sequencer and what was observed of its rounds, once
\* __drawCalibrationScreen has returned
SequencerLocalsGone ==
    /\ redoCalDict' = << >> /\ pointIdx' = 0 /\ calibResult' = NoResult
    /\ discardIdx' = 0 /\ holdRedoDict' = << >> /\ holdColorPoints' = << >>
    /\ collected' = {} /\ collectCalls' = 0 /\ retries' = 0
    /\ discarded' = << >> /\ selected' = {}

\* an operation ends: it returns (result "ok") or raises (the exception's name)
Return(res) == pc' = "returned" /\ result' = res

\* pcore.quit(): the process ends
Quit == pc' = "exited" /\ result' = "quit"

\* an operation is called: its name and its arguments
Call(name, a1, a2) == op' = [name |-> name, arg1 |-> a1, arg2 |-> a2]

\* the step makes this SDK call
Sdk(name) == sdkCall' = name

\* the step makes no SDK call
NoSdk == sdkCall' = "-"

\* the step gets these keys from event.getKeys / event.waitKeys
Pressed(keys) == keysSeen' = keys

\* the step does not read the keyboard
NoKeys == keysSeen' = {}

(***************************************************************************)
(* setEyeTracker (lines 81-133).                                           *)
(***************************************************************************)
\* a variant without the type check of lines 84-85
SerialNeverTypeError(serialString) == FALSE

\* lines 84-85
SerialTypeError(serialString) == serialString # None /\ ~IsStr(serialString)

\* a variant of line 91 that compares with <= instead of <
FindLoopOffByOne(trackers, count) == trackers = << >> /\ count <= MaxLoopCount

\* line 91: the loop's condition
FindLoopContinues(trackers, count) == trackers = << >> /\ count < MaxLoopCount

\* lines 100-124: the device selected, given the one selected before the call
SelectTracker(serialString, trackers, current) ==
    IF serialString = None
    THEN trackers[1]
    ELSE IF \E i \in 1..Len(trackers) : trackers[i] = serialString
         THEN serialString
         ELSE current

\* lines 84-90: the type check and the first discovery call
SetEyeTracker(serialString, found) ==
    /\ pc = "idle"
    /\ Call("setEyeTracker", serialString, None)
    /\ IF SerialTypeError(serialString)
       THEN /\ Return("TypeError") /\ NoSdk
            /\ UNCHANGED <<loopCount, allTrackers, findCalls>>
       ELSE /\ loopCount' = 1
            /\ allTrackers' = found
            /\ findCalls' = 1
            /\ Sdk("find_all_eyetrackers")
            /\ pc' = "find_loop" /\ result' = "-"
    /\ UNCHANGED <<helperVars, envVars, allMonitors, calVars, rd, gazeLast, calObs>>
    /\ UNCHANGED fnVars
    /\ UNCHANGED sampleFresh
    /\ NoKeys

\* lines 91-94: one more attempt
FindAgain(found) ==
    /\ pc = "find_loop"
    /\ FindLoopContinues(allTrackers, loopCount)
    /\ allTrackers' = found
    /\ loopCount' = loopCount + 1
    /\ findCalls' = findCalls + 1
    /\ Sdk("find_all_eyetrackers")
    /\ UNCHANGED <<helperVars, envVars, ctlVars, allMonitors, calVars, rd, gazeLast,
                   calObs>>
    /\ UNCHANGED fnVars
    /\ UNCHANGED sampleFresh
    /\ NoKeys

\* lines 96-133: after the loop
FindDone ==
    /\ pc = "find_loop"
    /\ ~FindLoopContinues(allTrackers, loopCount)
    /\ IF Len(allTrackers) < 1
       THEN Return("RuntimeError") /\ UNCHANGED eyetracker
       ELSE LET chosen == SelectTracker(op.arg1, allTrackers, eyetracker) IN
            /\ eyetracker' = chosen
            /\ IF chosen = None THEN Return("RuntimeError") ELSE Return("ok")
    /\ NoSdk
    /\ UNCHANGED <<monitorName, win, tracking, gazeData, calibration, envVars, op,
                   findVars, calVars, rd, gazeLast, calObs>>
    /\ UNCHANGED fnVars
    /\ UNCHANGED sampleFresh
    /\ NoKeys

(***************************************************************************)
(* setMonitor, getMonitorName, getMonitorDimensions (lines 165-225).       *)
(***************************************************************************)
\* lines 173-187: the exception the dimensions raise, or "ok"
DimensionsCheck(dimensions) ==
    IF dimensions = None THEN "ok"
    ELSE IF ~IsTuple(dimensions) THEN "TypeError"
    ELSE IF Len(TupleElems(dimensions)) # 2 THEN "TypeError"
    ELSE IF ~TupleElems(dimensions)[1][1] \/ ~TupleElems(dimensions)[2][1]
         THEN "TypeError"
    ELSE IF TupleElems(dimensions)[1][2] <= 0 \/ TupleElems(dimensions)[2][2] <= 0
         THEN "ValueError"
    ELSE "ok"

\* a variant of lines 173-176 that always takes the screen's dimensions
ScreenDimensions(dimensions) == DefaultScreen

\* lines 173-176: the dimensions in use
DimensionsUsed(dimensions) ==
    IF dimensions = None
    THEN DefaultScreen
    ELSE <<TupleElems(dimensions)[1][2], TupleElems(dimensions)[2][2]>>

\* lines 168-203: the exception setMonitor raises, or "ok"
SetMonitorOutcome(nameString, dimensions, monitors) ==
    IF Len(monitors) = 0 THEN "RuntimeError"
    ELSE IF DimensionsCheck(dimensions) # "ok" THEN DimensionsCheck(dimensions)
    ELSE IF nameString # None /\ ~IsStr(nameString) THEN "TypeError"
    ELSE "ok"

SetMonitor(nameString, dimensions, monitors) ==
    /\ pc = "idle"
    /\ Call("setMonitor", nameString, dimensions)
    /\ allMonitors' = monitors
    /\ Return(SetMonitorOutcome(nameString, dimensions, monitors))
    /\ IF SetMonitorOutcome(nameString, dimensions, monitors) = "ok"
       THEN /\ monitorName' = IF nameString = None THEN monitors[1] ELSE nameString
            /\ win' = DimensionsUsed(dimensions)
       ELSE UNCHANGED <<monitorName, win>>
    /\ NoSdk
    /\ UNCHANGED <<eyetracker, tracking, gazeData, calibration, envVars, loopCount,
                   allTrackers, findCalls, calVars, rd, gazeLast, calObs>>
    /\ UNCHANGED fnVars
    /\ UNCHANGED sampleFresh
    /\ NoKeys

\* lines 217-220: the name, or the exception
getMonitorName == IF monitorName = None THEN "RuntimeError" ELSE monitorName

\* lines 222-225: (width, height), or << >> where RuntimeError is raised
getMonitorDimensions == IF win = << >> THEN << >> ELSE <<win[1], win[2]>>

(***************************************************************************)
(* The gaze-data callback and the subscription (lines 245-276).            *)
(***************************************************************************)
\* a variant of the callback that keeps the first sample it was given
KeepFirstSample(slot, sample) == IF slot = None THEN sample ELSE slot

\* lines 245-246: what the callback leaves in the slot
GazeDataCallback(slot, sample) == sample

\* the SDK delivers a sample, on its own thread, while a subscription is active
Deliver(sample) ==
    /\ subscribed
    /\ pc # "exited"
    /\ gazeData' = GazeDataCallback(gazeData, sample)
    /\ lastDelivered' = sample
    /\ NoSdk
    /\ UNCHANGED <<cfgVars, tracking, calibration, subscribed, inCalibMode, window,
                   ownWindow, ctlVars, findVars, calVars, rd, gazeLast, calObs>>
    /\ UNCHANGED fnVars
    /\ sampleFresh' = TRUE
    /\ NoKeys

\* lines 259-262 of __startGazeData
StartGazeData ==
    /\ Sdk("subscribe_to") /\ gazeLast' = "subscribe_to"
    /\ subscribed' = TRUE
    /\ tracking' = TRUE
    /\ sampleFresh' = FALSE

\* lines 274-276 of __stopGazeData
StopGazeData ==
    /\ Sdk("unsubscribe_from") /\ gazeLast' = "unsubscribe_from"
    /\ subscribed' = FALSE
    /\ tracking' = FALSE
    /\ sampleFresh' = FALSE

\* nothing is done to the subscription
GazeUntouched == NoSdk /\ UNCHANGED <<gazeLast, subscribed, tracking, sampleFresh>>

(***************************************************************************)
(* Arguments of runTrackBox, runValidation and runFullCalibration.         *)
(***************************************************************************)
\* trackWin / valWin / calibWin: omitted, a visual.Window, something else
WinArgs == {None, "<Window>", "<str 'win'>"}

\* isinstance(w, visual.Window)
IsWindow(w) == w = "<Window>"

\* pointDict of runValidation: omitted, an OrderedDict of points, a list
DictArgs == {None, "<dict>", "<list>"}

\* isinstance(d, dict)
IsDict(d) == d = "<dict>"

\* numCalibPoints: omitted, ints, floats, a str
NumArgs == {None, "5", "9", "7", "5.0", "9.0", "'5'"}

\* isinstance(n, numbers.Number)
IsNumber(n) == n \in {"5", "9", "7", "5.0", "9.0"}

\* type(n) is int
IsInt(n) == n \in {"5", "9", "7"}

\* the number's value, as == compares it
NumValue(n) ==
    CASE n \in {"5", "5.0"} -> 5
      [] n \in {"9", "9.0"} -> 9
      [] n = "7"            -> 7
      [] OTHER              -> 0

\* `n in [5, 9]`: membership compares with ==
InFiveNine(n) == NumValue(n) = 5 \/ NumValue(n) = 9

\* `n is k` for the int literal k: the same object, which only an int of that
\* value is
IsObject(n, k) == IsInt(n) /\ NumValue(n) = k

(***************************************************************************)
(* The calibration points (lines 1419-1427, 1476-1477), in tenths of the   *)
(* display area: <<1, 9>> is (0.1, 0.9).                                   *)
(***************************************************************************)
FivePoints ==
    << <<"1", <<1, 1>>>>, <<"2", <<9, 1>>>>, <<"3", <<5, 5>>>>,
       <<"4", <<1, 9>>>>, <<"5", <<9, 9>>>> >>

NinePoints ==
    << <<"1", <<1, 1>>>>, <<"2", <<5, 1>>>>, <<"3", <<9, 1>>>>,
       <<"4", <<1, 5>>>>, <<"5", <<5, 5>>>>, <<"6", <<9, 5>>>>,
       <<"7", <<1, 9>>>>, <<"8", <<5, 9>>>>, <<"9", <<9, 9>>>> >>

\* lines 1418-1427: is pointList bound after the if/elif chain
PointListBound(numCalibPoints) ==
    \/ numCalibPoints = None
    \/ IsObject(numCalibPoints, 5)
    \/ IsObject(numCalibPoints, 9)

\* lines 1418-1427: pointList, where it is bound
PointList(numCalibPoints) ==
    IF numCalibPoints = None THEN FivePoints
    ELSE IF IsObject(numCalibPoints, 5) THEN FivePoints
    ELSE IF IsObject(numCalibPoints, 9) THEN NinePoints
    ELSE << >>

Reverse(l) == [i \in 1..Len(l) |-> l[Len(l) + 1 - i]]
Rotate(l, k) == [i \in 1..Len(l) |-> l[((i + k - 1) % Len(l)) + 1]]

\* a variant of line 1430 that overwrites the last entry with the first
ShuffleLosesEntry(l) == {[i \in 1..Len(l) |-> IF i = Len(l) THEN l[1] ELSE l[i]]}

\* line 1430: orders np.random.shuffle can leave the list in (three of them:
\* (0.9, 0.9) comes last, first and in the middle)
ShuffleOutcomes(l) == {l, Reverse(l), Rotate(l, 2)}

\* dict.values() / dict.keys() of an OrderedDict kept as a sequence of entries
Values(d) == [i \in 1..Len(d) |-> d[i][2]]
Keys(d) == [i \in 1..Len(d) |-> d[i][1]]
Range(f) == {f[i] : i \in DOMAIN f}

(***************************************************************************)
(* What the toolkit does with a window that has been closed is not this    *)
(* program's to decide: an operation on it either raises or goes through.  *)
(***************************************************************************)
WindowOutcomes == IF window = "closed" THEN {"raises", "works"} ELSE {"works"}

\* a variant in which leaving the with-statement leaves the window as it is
LeaveWithoutClose == UNCHANGED window

\* the window a with-statement opened is closed when the block is left
LeaveWith == IF ownWindow THEN window' = "closed" ELSE UNCHANGED window

(***************************************************************************)
(* runTrackBox (lines 1354-1392) and __drawEyePositions (lines 638-821).   *)
(***************************************************************************)
\* lines 1357-1365: the exception the checks raise, or "ok"
RunTrackBoxCheck(trackWin) ==
    IF eyetracker = None THEN "RuntimeError"
    ELSE IF win = << >> THEN "RuntimeError"
    ELSE IF trackWin # None /\ ~IsWindow(trackWin) THEN "TypeError"
    ELSE "ok"

RunTrackBox(trackWin) ==
    /\ pc = "idle"
    /\ Call("runTrackBox", trackWin, None)
    /\ IF RunTrackBoxCheck(trackWin) # "ok"
       THEN Return(RunTrackBoxCheck(trackWin)) /\ UNCHANGED window
       ELSE /\ pc' = "tb_subscribe" /\ result' = "-"
            /\ window' = IF trackWin = None THEN "none" ELSE "open"
    /\ NoSdk
    /\ UNCHANGED <<helperVars, subscribed, inCalibMode, ownWindow, lastDelivered,
                   findVars, calVars, rd, gazeLast, calObs>>
    /\ UNCHANGED fnVars
    /\ UNCHANGED sampleFresh
    /\ NoKeys

\* lines 1368-1391 and 641-659: subscribe, open the own window if none was
\* given, show the instruction
TrackBoxStart ==
    /\ pc = "tb_subscribe"
    /\ StartGazeData
    /\ IF window = "none"
       THEN window' = "open" /\ ownWindow' = TRUE
       ELSE UNCHANGED <<window, ownWindow>>
    /\ pc' = "tb_instr"
    /\ UNCHANGED <<cfgVars, gazeData, calibration, inCalibMode, lastDelivered, op,
                   result, findVars, calVars, rd, calObs>>
    /\ UNCHANGED fnVars
    /\ NoKeys

\* lines 662-718: waitKeys(maxWait = 10, keyList = ['c']) returns on 'c' or
\* when the ten seconds are over
TrackBoxInstruction(how) ==
    /\ pc = "tb_instr"
    /\ how \in {"c", "timeout"}
    /\ pc' = "tb_loop"
    /\ rd' = << >>
    /\ NoSdk
    /\ UNCHANGED <<helperVars, envVars, op, result, findVars, calVars, gazeLast,
                   calObs>>
    /\ UNCHANGED fnVars
    /\ UNCHANGED sampleFresh
    /\ Pressed(IF how = "c" THEN {"c"} ELSE {})

\* the reads of self.gazeData in one iteration of the track-box loop, in order:
\* lines 380, 385, 386, 389, 391 (__virtualTrackboxEyePos), 456
\* (__getAvgEyeDist), 424, 429, 430 (__getAvgEyePos); at 380, 456 and 424 the
\* slot is compared with None
TrackBoxReads == 9
TrackBoxNoneChecks == {1, 6, 7}

\* the reads of one iteration of the validation loop: lines 350, 354, 355
ValidationReads == 3
ValidationNoneChecks == {1}

\* one read of the slot by a draw loop: rd afterwards, or the exception
\* (lines 350-351, 380-381, 424-425, 456-457)
ReadSlot(noneChecks) ==
    IF (Len(rd) + 1) \in noneChecks
    THEN IF gazeData = None
         THEN /\ Return("RuntimeError") /\ LeaveWith /\ UNCHANGED rd
         ELSE /\ rd' = Append(rd, "checked") /\ UNCHANGED <<pc, result, window>>
    ELSE /\ rd' = Append(rd, gazeData) /\ UNCHANGED <<pc, result, window>>

\* lines 723-724: the next read of the slot in the track-box loop
TrackBoxRead ==
    /\ pc = "tb_loop"
    /\ Len(rd) < TrackBoxReads
    /\ ReadSlot(TrackBoxNoneChecks)
    /\ NoSdk
    /\ UNCHANGED <<helperVars, subscribed, inCalibMode, ownWindow, lastDelivered,
                   op, findVars, calVars, gazeLast, calObs>>
    /\ UNCHANGED fnVars
    /\ UNCHANGED sampleFresh
    /\ NoKeys

\* a variant of lines 809-813 and 884-888 that looks for 'c' first
ContinueFirst(keys) ==
    IF "c" \in keys THEN "c" ELSE IF "q" \in keys THEN "q" ELSE "-"

\* lines 809-813 and 884-888: the branch taken with these keys pending
KeyBranch(keys) ==
    IF "q" \in keys THEN "q" ELSE IF "c" \in keys THEN "c" ELSE "-"

\* lines 726-821: draw, flip, poll the keys; `keys` are the keys pending
TrackBoxPoll(keys) ==
    /\ pc = "tb_loop"
    /\ Len(rd) = TrackBoxReads
    /\ rd' = << >>
    /\ IF KeyBranch(keys) = "q"
       THEN \* lines 809-812
            /\ StopGazeData
            /\ window' = "closed"
            /\ Quit
       ELSE IF KeyBranch(keys) = "c"
       THEN \* lines 813-818, then 1376 / 1392
            /\ StopGazeData
            /\ IF fullCalib
               THEN pc' = "cal_enter" /\ UNCHANGED <<result, window>>
               ELSE Return("ok") /\ LeaveWith
       ELSE GazeUntouched /\ UNCHANGED <<pc, result, window>>
    /\ UNCHANGED <<cfgVars, gazeData, calibration, inCalibMode, ownWindow,
                   lastDelivered, op, findVars, calVars, calObs>>
    /\ UNCHANGED fnVars
    /\ Pressed(keys)

(***************************************************************************)
(* runValidation (lines 1470-1508) and __drawValidationScreen (823-895).   *)
(***************************************************************************)
\* a variant without the check of lines 253-254
RunValidationCheckNoTracker(pd, valWin) ==
    IF pd # None /\ ~IsDict(pd) THEN "TypeError"
    ELSE IF valWin # None /\ ~IsWindow(valWin) THEN "TypeError"
    ELSE IF win = << >> THEN "RuntimeError"
    ELSE "ok"

\* lines 1473-1489 and 253-254: the exception the checks raise, or "ok"
RunValidationCheck(pd, valWin) ==
    IF pd # None /\ ~IsDict(pd) THEN "TypeError"
    ELSE IF valWin # None /\ ~IsWindow(valWin) THEN "TypeError"
    ELSE IF win = << >> THEN "RuntimeError"
    ELSE IF eyetracker = None THEN "RuntimeError"
    ELSE "ok"

RunValidation(pd, valWin) ==
    /\ pc = "idle"
    /\ Call("runValidation", pd, valWin)
    /\ IF RunValidationCheck(pd, valWin) # "ok"
       THEN Return(RunValidationCheck(pd, valWin)) /\ UNCHANGED <<window, pointDict>>
       ELSE /\ pc' = "val_subscribe" /\ result' = "-"
            /\ window' = IF valWin = None THEN "none" ELSE "open"
            /\ pointDict' = IF pd = None THEN FivePoints ELSE NinePoints
    /\ NoSdk
    /\ UNCHANGED <<helperVars, subscribed, inCalibMode, ownWindow, lastDelivered,
                   findVars, fullCalib, calibDict, seqVars, holdVars, rd, gazeLast,
                   calObs>>
    /\ UNCHANGED fnVars
    /\ UNCHANGED sampleFresh
    /\ NoKeys

\* lines 1489-1507 and 826-860: subscribe, open the own window if none was
\* given, make the stimuli
ValidationStart(outcome) ==
    /\ pc = "val_subscribe"
    /\ outcome \in WindowOutcomes
    /\ StartGazeData
    /\ IF outcome = "raises"
       THEN Return("WindowError") /\ UNCHANGED <<window, ownWindow>>
       ELSE /\ pc' = "val_loop" /\ UNCHANGED result
            /\ IF window = "none"
               THEN window' = "open" /\ ownWindow' = TRUE
               ELSE UNCHANGED <<window, ownWindow>>
    /\ rd' = << >>
    /\ UNCHANGED <<cfgVars, gazeData, calibration, inCalibMode, lastDelivered, op,
                   findVars, calVars, calObs>>
    /\ UNCHANGED fnVars
    /\ NoKeys

\* line 865: the next read of the slot in the validation loop
ValidationRead ==
    /\ pc = "val_loop"
    /\ Len(rd) < ValidationReads
    /\ ReadSlot(ValidationNoneChecks)
    /\ NoSdk
    /\ UNCHANGED <<helperVars, subscribed, inCalibMode, ownWindow, lastDelivered,
                   op, findVars, calVars, gazeLast, calObs>>
    /\ UNCHANGED fnVars
    /\ UNCHANGED sampleFresh
    /\ NoKeys

\* lines 867-895: draw, flip, poll the keys; `keys` are the keys pending
ValidationPoll(keys, outcome) ==
    /\ pc = "val_loop"
    /\ Len(rd) = ValidationReads
    /\ outcome \in WindowOutcomes
    /\ rd' = << >>
    /\ IF outcome = "raises"
       THEN Return("WindowError") /\ GazeUntouched /\ UNCHANGED window
       ELSE IF KeyBranch(keys) = "q"
       THEN \* lines 885-887
            StopGazeData /\ LeaveWith /\ Quit
       ELSE IF KeyBranch(keys) = "c"
       THEN \* lines 888-892
            /\ StopGazeData
            /\ IF fullCalib
               THEN pc' = "rfc_close" /\ UNCHANGED <<result, window>>
               ELSE Return("ok") /\ LeaveWith
       ELSE GazeUntouched /\ UNCHANGED <<pc, result, window>>
    /\ UNCHANGED <<cfgVars, gazeData, calibration, inCalibMode, ownWindow,
                   lastDelivered, op, findVars, calVars, calObs>>
    /\ UNCHANGED fnVars
    /\ Pressed(IF outcome = "raises" THEN {} ELSE keys)

(***************************************************************************)
(* __ada2PsychoPix (lines 314-336), applied on its own.  Coordinates are   *)
(* in eighths, <<4, 4>> is (0.5, 0.5): an eighth is a float without        *)
(* rounding, so the products and differences of lines 333-334 are exact.   *)
(***************************************************************************)
\* the upper limit 1 of lines 326, in the units the coordinates are written in
Eighths == 8

\* the coordinates tried: from -0.125 to 1.125
AdaRange == (0 - 1)..(Eighths + 1)

\* the sizes of the monitor tried: the toolkit's default, a size with odd
\* width and height, a full-HD screen
MonitorSizes == {DefaultScreen, <<1281, 721>>, <<1920, 1080>>}

\* xyCoor: a tuple of two numbers, and values of other shapes
AdaArgs ==
    {[fn |-> "ada2PsychoPix", kind |-> "tuple", x |-> x, y |-> y] :
        x \in AdaRange, y \in AdaRange}
    \cup {[fn |-> "ada2PsychoPix", kind |-> k, x |-> 4, y |-> 4] :
            k \in {"list", "triple", "tuple of str"}}

\* int(a / b) for b > 0: the quotient, truncated towards zero
IntOfQuotient(a, b) == IF a >= 0 THEN a \div b ELSE 0 - ((0 - a) \div b)

\* a variant of lines 333-334 that rounds down instead of towards zero
PsychoPixFloor(monHW, x, y) ==
    <<(2 * x * monHW[1] - Eighths * monHW[1]) \div (2 * Eighths),
      (0 - (2 * y * monHW[2] - Eighths * monHW[2])) \div (2 * Eighths)>>

\* lines 330-334: the pixel coordinates, for x and y in eighths:
\* int(x * W - W / 2) and int((y * H - H / 2) * -1)
PsychoPix(monHW, x, y) ==
    <<IntOfQuotient(2 * x * monHW[1] - Eighths * monHW[1], 2 * Eighths),
      IntOfQuotient(0 - (2 * y * monHW[2] - Eighths * monHW[2]), 2 * Eighths)>>

\* lines 314-336: what the call returns or raises
ada2PsychoPix(monitor, xyCoor) ==
    IF monitor = << >> THEN [status |-> "RuntimeError", value |-> << >>]
    ELSE IF xyCoor.kind = "list" THEN [status |-> "TypeError", value |-> << >>]
    ELSE IF xyCoor.kind = "triple" THEN [status |-> "ValueError", value |-> << >>]
    ELSE IF xyCoor.kind = "tuple of str"
         THEN [status |-> "TypeError", value |-> << >>]
    ELSE IF xyCoor.x > Eighths \/ xyCoor.x < 0 \/ xyCoor.y > Eighths \/ xyCoor.y < 0
         THEN [status |-> "ValueError", value |-> << >>]
    ELSE [status |-> "returned", value |-> PsychoPix(monitor, xyCoor.x, xyCoor.y)]

(***************************************************************************)
(* __smoothing (lines 502-525), applied call after call to the list of eye *)
(* distances as line 726 does: the invalid marker is 0.0, the smoothing    *)
(* function the mean, which is kept as <<sum, number of items>>.           *)
(***************************************************************************)
\* line 505
maxLength == 6

\* line 726: invalidObject
invalidObject == 0

\* the calls of __smoothing tried in a row
MaxSmoothingCalls == 11

\* currentObject: no distance, or a distance
SmoothingSamples == {invalidObject, 1, 2}

RECURSIVE Sum(_)
Sum(l) == IF l = << >> THEN 0 ELSE l[1] + Sum(Tail(l))

\* line 726: lambda list : sum(list) / len(list)
smoothFunction(l) == <<Sum(l), Len(l)>>

\* result == invalidObject
IsInvalidObject(value) == value[1] = invalidObject * value[2]

\* a variant of lines 510-514 that leaves the list alone on an invalid sample
AppendOnlyValid(l, currentObject) ==
    IF currentObject = invalidObject THEN l ELSE Append(l, currentObject)

\* lines 510-514: the list after the current sample has been applied
ApplySample(l, currentObject) ==
    IF currentObject = invalidObject
    THEN IF Len(l) > 0 THEN Tail(l) ELSE l
    ELSE Append(l, currentObject)

\* lines 516-519: the result
SmoothingResult(l) ==
    IF Len(l) = 0 THEN <<invalidObject, 1>> ELSE smoothFunction(l)

\* a variant of lines 522-523 that never removes an item
KeepAll(l) == l

\* lines 522-523: the list the call leaves behind
DropAtMaxLength(l) == IF Len(l) = maxLength THEN Tail(l) ELSE l

\* the helper after __init__ and possibly setMonitor, and the argument of
\* __ada2PsychoPix, or the empty list __smoothing begins with
FnInit ==
    /\ eyetracker = None
    /\ NothingRunning
    /\ fnOut = NoOutcome
    /\ objectList = << >> /\ history = << >> /\ applied = 0
    /\ \/ /\ \/ monitorName = None /\ win = << >>
             \/ monitorName = "testMonitor" /\ win \in MonitorSizes
          /\ fnIn \in AdaArgs
       \/ /\ monitorName = None /\ win = << >>
          /\ fnIn = [fn |-> "smoothing", kind |-> "list", x |-> 0, y |-> 0]

\* self.__ada2PsychoPix(xyCoor)
ApplyAda2PsychoPix ==
    /\ fnIn.fn = "ada2PsychoPix"
    /\ fnOut = NoOutcome
    /\ fnOut' = ada2PsychoPix(win, fnIn)
    /\ UNCHANGED <<helperVars, envVars, ctlVars, findVars, calVars, rd, sdkCall,
                   gazeLast, calObs, fnIn, objectList, history, applied, keyObs>>

\* self.__smoothing(currentObject, objectList, invalidObject, smoothFunction)
ApplySmoothing(currentObject) ==
    /\ fnIn.fn = "smoothing"
    /\ Len(history) < MaxSmoothingCalls
    /\ fnIn' = [fnIn EXCEPT !.x = currentObject]
    /\ history' = Append(history, currentObject)
    /\ applied' = Len(ApplySample(objectList, currentObject))
    /\ fnOut' = [status |-> "returned",
                 value |-> SmoothingResult(ApplySample(objectList, currentObject))]
    /\ objectList' = DropAtMaxLength(ApplySample(objectList, currentObject))
    /\ UNCHANGED <<helperVars, envVars, ctlVars, findVars, calVars, rd, sdkCall,
                   gazeLast, calObs, keyObs>>

FnNext ==
    \/ ApplyAda2PsychoPix
    \/ \E s \in SmoothingSamples : ApplySmoothing(s)

FnSpec == FnInit /\ [][FnNext]_vars

(***************************************************************************)
(* runFullCalibration (lines 1395-1465).                                   *)
(***************************************************************************)
\* lines 1397-1430: the exception raised before the window is made, or "ok"
RunFullCalibrationCheck(numCalibPoints, calibWin) ==
    IF numCalibPoints # None /\ ~IsNumber(numCalibPoints) THEN "TypeError"
    ELSE IF numCalibPoints # None /\ ~InFiveNine(numCalibPoints) THEN "ValueError"
    ELSE IF calibWin # None /\ ~IsWindow(calibWin) THEN "TypeError"
    ELSE IF eyetracker = None THEN "RuntimeError"
    ELSE IF win = << >> THEN "RuntimeError"
    ELSE IF ~PointListBound(numCalibPoints) THEN "UnboundLocalError"
    ELSE "ok"

\* lines 1397-1452: the checks, the points, the shuffle, the window, and the
\* call of runTrackBox(calibWin) up to its own checks
RunFullCalibration(numCalibPoints, calibWin) ==
    /\ pc = "idle"
    /\ Call("runFullCalibration", numCalibPoints, calibWin)
    /\ IF RunFullCalibrationCheck(numCalibPoints, calibWin) # "ok"
       THEN /\ Return(RunFullCalibrationCheck(numCalibPoints, calibWin))
            /\ UNCHANGED <<window, fullCalib, calibDict>>
       ELSE /\ calibDict' \in ShuffleOutcomes(PointList(numCalibPoints))
            /\ window' = "open"
            /\ fullCalib' = TRUE
            /\ pc' = "tb_subscribe" /\ result' = "-"
    /\ NoSdk
    /\ UNCHANGED <<helperVars, subscribed, inCalibMode, ownWindow, lastDelivered,
                   findVars, pointDict, seqVars, holdVars, rd, gazeLast, calObs>>
    /\ UNCHANGED fnVars
    /\ UNCHANGED sampleFresh
    /\ NoKeys

\* lines 1460-1465: the closing message, then calibWin.close()
FullCalibrationClose(outcome) ==
    /\ pc = "rfc_close"
    /\ outcome \in WindowOutcomes
    /\ IF outcome = "raises"
       THEN Return("WindowError") /\ UNCHANGED window
       ELSE Return("ok") /\ window' = "closed"
    /\ NoSdk
    /\ UNCHANGED <<helperVars, subscribed, inCalibMode, ownWindow, lastDelivered,
                   op, findVars, calVars, rd, gazeLast, calObs>>
    /\ UNCHANGED fnVars
    /\ UNCHANGED sampleFresh
    /\ NoKeys

\* line 1458: runValidation(calibDict, calibWin), whose checks pass
CallValidation ==
    /\ pointDict' = calibDict
    /\ pc' = "val_subscribe"

(***************************************************************************)
(* The calibration sequencer: __drawCalibrationScreen (lines 1235-1348),   *)
(* __getCalibrationData (1122-1232), __drawCalibrationResults (946-1117).  *)
(***************************************************************************)
\* a call on self.calibration
CalCall(name) == Sdk(name) /\ calLast' = name

\* self.calibration.leave_calibration_mode()
LeaveCalibrationMode ==
    /\ CalCall("leave_calibration_mode")
    /\ nLeave' = nLeave + 1
    /\ inCalibMode' = FALSE

\* nothing is called on self.calibration
CalUntouched == NoSdk /\ UNCHANGED <<calLast, nLeave, inCalibMode>>

\* line 1278: a round of data collection begins
StartRound ==
    /\ pointIdx' = 1
    /\ collected' = {} /\ collectCalls' = 0 /\ retries' = 0
    /\ pc' = "cal_point"

\* lines 1236-1264: the calibration object, enter_calibration_mode, instruction
CalibrationEnter ==
    /\ pc = "cal_enter"
    /\ calibration' = "ScreenBasedCalibration"
    /\ CalCall("enter_calibration_mode")
    /\ nEnter' = nEnter + 1
    /\ inCalibMode' = TRUE
    /\ pc' = "cal_instr"
    /\ UNCHANGED <<cfgVars, tracking, gazeData, subscribed, window, ownWindow,
                   lastDelivered, op, result, findVars, calVars, rd, gazeLast,
                   nLeave, roundObs, discarded, selected>>
    /\ UNCHANGED fnVars
    /\ UNCHANGED sampleFresh
    /\ NoKeys

\* lines 1267-1278: waitKeys returns on 'c' or after ten seconds; the first
\* round is over all the points
CalibrationInstruction(how) ==
    /\ pc = "cal_instr"
    /\ how \in {"c", "timeout"}
    /\ redoCalDict' = calibDict
    /\ StartRound
    /\ NoSdk
    /\ UNCHANGED <<helperVars, envVars, op, result, findVars, dictVars,
                   calibResult, discardIdx, holdVars, rd, gazeLast, calLast,
                   nEnter, nLeave, discarded, selected>>
    /\ UNCHANGED fnVars
    /\ UNCHANGED sampleFresh
    /\ Pressed(IF how = "c" THEN {"c"} ELSE {})

\* a variant of line 1196 that calls collect_data once for each point
CollectNeverAgain(status) == FALSE

\* line 1196: the condition of the loop around collect_data
CollectAgain(status) == status # "success"

\* lines 1153-1197: move the dot to point i (once) and call collect_data
CollectData(status) ==
    /\ pc = "cal_point"
    /\ status \in {"success", "failure"}
    /\ status = "failure" => retries < MaxRetries
    /\ CalCall("collect_data")
    /\ collected' = collected \cup {Values(redoCalDict)[pointIdx]}
    /\ collectCalls' = collectCalls + 1
    /\ retries' = IF status = "success" THEN retries ELSE retries + 1
    /\ pc' = IF CollectAgain(status) THEN "cal_point" ELSE "cal_point_done"
    /\ UNCHANGED <<helperVars, envVars, op, result, findVars, calVars, rd,
                   gazeLast, nEnter, nLeave, discarded, selected>>
    /\ UNCHANGED fnVars
    /\ UNCHANGED sampleFresh
    /\ NoKeys

\* lines 1199-1222: restore the dot, poll 'q', go to the next point
PointDone(keys) ==
    /\ pc = "cal_point_done"
    /\ IF "q" \in keys
       THEN \* lines 1216-1219
            /\ window' = "closed"
            /\ LeaveCalibrationMode
            /\ Quit
            /\ SequencerLocalsGone
       ELSE /\ pointIdx' = pointIdx + 1
            /\ pc' = IF pointIdx < Len(redoCalDict) THEN "cal_point" ELSE "cal_compute"
            /\ CalUntouched
            /\ UNCHANGED <<window, result, redoCalDict, calibResult, discardIdx,
                           holdVars, roundObs, discarded, selected>>
    /\ UNCHANGED <<helperVars, subscribed, ownWindow, lastDelivered, op, findVars,
                   dictVars, rd, gazeLast, nEnter>>
    /\ UNCHANGED fnVars
    /\ UNCHANGED sampleFresh
    /\ Pressed(keys)

\* the mean position of an eye over the samples of a calibration point
\* (lines 931-932), in eighths: on the display area, and to the right of it
MeanPositions == {<<4, 4>>, <<9, 4>>}

\* what compute_and_apply can return: its status, whether it has as many
\* points as calibDict (lines 960-966), and the mean position of an eye over
\* the samples of a point, which lines 937-938 convert
ComputeResults ==
    {[status |-> "success", drawable |-> TRUE, mean |-> <<4, 4>>],
     [status |-> "success", drawable |-> FALSE, mean |-> <<4, 4>>],
     [status |-> "success", drawable |-> TRUE, mean |-> <<9, 4>>],
     [status |-> "failure", drawable |-> TRUE, mean |-> <<4, 4>>]}

\* lines 960-966 and 937-938: the results screen can be made from the result
Drawable(res) ==
    /\ res.drawable
    /\ ada2PsychoPix(win, [fn |-> "ada2PsychoPix", kind |-> "tuple",
                           x |-> res.mean[1], y |-> res.mean[2]]).status = "returned"

\* lines 1224-1232; the round is over: its point list and loop index are not
\* read again, and redoCalDict is not read before line 1297 assigns it
ComputeAndApply(res) ==
    /\ pc = "cal_compute"
    /\ CalCall("compute_and_apply")
    /\ calibResult' = res
    /\ redoCalDict' = << >> /\ pointIdx' = 0
    /\ discarded' = << >>
    /\ collected' = {} /\ collectCalls' = 0 /\ retries' = 0
    /\ pc' = "cal_check"
    /\ UNCHANGED <<helperVars, envVars, op, result, findVars, dictVars,
                   discardIdx, holdVars, rd, gazeLast, nEnter, nLeave, selected>>
    /\ UNCHANGED fnVars
    /\ UNCHANGED sampleFresh
    /\ NoKeys

\* a variant of lines 1284-1309 without the `return` of line 1309: after a
\* failed computation the sequencer goes on as after a successful one
CalibrationCheckNoReturn ==
    /\ pc = "cal_check"
    /\ pc' = "cal_results"
    /\ holdRedoDict' = << >> /\ holdColorPoints' = << >>
    /\ selected' = {}
    /\ IF calibResult.status = "success"
       THEN CalUntouched /\ UNCHANGED window
       ELSE window' = "closed" /\ LeaveCalibrationMode
    /\ UNCHANGED <<helperVars, subscribed, ownWindow, lastDelivered, op, result,
                   findVars, dictVars, seqVars, rd, gazeLast, nEnter, roundObs,
                   discarded>>
    /\ UNCHANGED fnVars
    /\ UNCHANGED sampleFresh
    /\ NoKeys

\* lines 1284-1309 and 946-1014: on success the results screen is made, which
\* raises ValueError where the result cannot be drawn; otherwise the window is
\* closed, calibration mode is left and __drawCalibrationScreen returns to
\* runFullCalibration, which goes on with runValidation
CalibrationCheck ==
    /\ pc = "cal_check"
    /\ IF calibResult.status = "success"
       THEN /\ IF Drawable(calibResult)
               THEN pc' = "cal_results" /\ UNCHANGED result
               ELSE Return("ValueError")
            /\ holdRedoDict' = << >> /\ holdColorPoints' = << >>
            /\ selected' = {}
            /\ CalUntouched
            /\ UNCHANGED <<window, pointDict, seqVars, roundObs, discarded>>
       ELSE \* lines 1301-1309
            /\ window' = "closed"
            /\ LeaveCalibrationMode
            /\ SequencerLocalsGone
            /\ CallValidation
            /\ UNCHANGED result
    /\ UNCHANGED <<helperVars, subscribed, ownWindow, lastDelivered, op, findVars,
                   fullCalib, calibDict, rd, gazeLast, nEnter>>
    /\ UNCHANGED fnVars
    /\ UNCHANGED sampleFresh
    /\ NoKeys

\* int(key) of a point's label
IntOf(key) ==
    CASE key = "1" -> 1 [] key = "2" -> 2 [] key = "3" -> 3 [] key = "4" -> 4
      [] key = "5" -> 5 [] key = "6" -> 6 [] key = "7" -> 7 [] key = "8" -> 8
      [] key = "9" -> 9 [] OTHER -> 0

\* list.remove(x): the list without its first x
Remove(l, x) ==
    LET i == CHOOSE j \in 1..Len(l) : l[j] = x /\ \A k \in 1..(j - 1) : l[k] # x
    IN  [k \in 1..(Len(l) - 1) |-> IF k < i THEN l[k] ELSE l[k + 1]]

\* x in l
InList(l, x) == \E i \in 1..Len(l) : l[i] = x

\* a variant of lines 1087-1089 in which a second press leaves the entry selected
ToggleRedoKeeps(hold, entry) ==
    IF InList(hold, entry) THEN hold ELSE Append(hold, entry)

\* lines 1084-1094: the entries selected after the key of a point is pressed
ToggleRedo(hold, entry) ==
    IF InList(hold, entry) THEN Remove(hold, entry) ELSE Append(hold, entry)

\* lines 1084-1094: the highlighted numbers after the key of a point is pressed
ToggleColor(hold, colors, entry) ==
    IF InList(hold, entry)
    THEN Remove(colors, IntOf(entry[1]))
    ELSE Append(colors, IntOf(entry[1]))

\* lines 1106-1111: OrderedDict(holdRedoDict), one entry for each key
RedoDict(hold) ==
    LET firsts == {i \in 1..Len(hold) : \A k \in 1..(i - 1) : hold[k][1] # hold[i][1]}
        f[n \in 0..Len(hold)] ==
            IF n = 0 THEN << >>
            ELSE IF n \in firsts THEN Append(f[n - 1], hold[n]) ELSE f[n - 1]
    IN  f[Len(hold)]

\* the entry of curDict with this key (lines 1084-1086)
EntryOf(d, key) == d[CHOOSE i \in 1..Len(d) : d[i][1] = key]

\* lines 1064-1117 and 1311-1338: one key of the results screen
ResultsKey(key) ==
    /\ pc = "cal_results"
    /\ key \in {"q", "c"} \cup Range(Keys(calibDict))
    /\ IF key = "q"
       THEN \* lines 1076-1079
            /\ window' = "closed"
            /\ LeaveCalibrationMode
            /\ Quit
            /\ SequencerLocalsGone
            /\ UNCHANGED pointDict
       ELSE IF key = "c"
       THEN \* lines 1097-1114, then 1312-1338
            IF RedoDict(holdRedoDict) = << >>
            THEN /\ LeaveCalibrationMode
                 /\ SequencerLocalsGone
                 /\ CallValidation
                 /\ UNCHANGED <<window, result>>
            ELSE /\ redoCalDict' = RedoDict(holdRedoDict)
                 /\ holdRedoDict' = << >> /\ holdColorPoints' = << >>
                 /\ pc' = "cal_discard"
                 /\ discardIdx' = 1
                 /\ CalUntouched
                 /\ UNCHANGED <<window, result, pointDict, pointIdx, calibResult,
                                roundObs, discarded, selected>>
       ELSE \* lines 1082-1094
            /\ (~InList(holdRedoDict, EntryOf(calibDict, key))
                    => Len(holdRedoDict) < MaxSelected)
            /\ holdRedoDict' = ToggleRedo(holdRedoDict, EntryOf(calibDict, key))
            /\ holdColorPoints' = ToggleColor(holdRedoDict, holdColorPoints,
                                               EntryOf(calibDict, key))
            /\ selected' = IF key \in selected THEN selected \ {key}
                                                ELSE selected \cup {key}
            /\ CalUntouched
            /\ UNCHANGED <<window, pc, result, pointDict, seqVars, roundObs,
                           discarded>>
    /\ UNCHANGED <<helperVars, subscribed, ownWindow, lastDelivered, op, findVars,
                   fullCalib, calibDict, rd, gazeLast, nEnter>>
    /\ UNCHANGED fnVars
    /\ UNCHANGED sampleFresh
    /\ Pressed({key})

\* a variant of lines 1341-1344 that discards the first point every time
DiscardFirstPoint(redo, idx) == Values(redo)[1]

\* lines 1341-1344: the point of the idx-th discard_data call
DiscardPoint(redo, idx) == Values(redo)[idx]

\* lines 1341-1344: discard_data for one point of the redo dict; after the
\* last one the next round begins (line 1278)
DiscardData ==
    /\ pc = "cal_discard"
    /\ CalCall("discard_data")
    /\ discarded' = Append(discarded, DiscardPoint(redoCalDict, discardIdx))
    /\ IF discardIdx < Len(redoCalDict)
       THEN /\ discardIdx' = discardIdx + 1
            /\ UNCHANGED <<pc, pointIdx, roundObs>>
       ELSE /\ discardIdx' = 0
            /\ StartRound
    /\ UNCHANGED <<helperVars, envVars, op, result, findVars, dictVars,
                   redoCalDict, calibResult, holdVars, rd, gazeLast, nEnter,
                   nLeave, selected>>
    /\ UNCHANGED fnVars
    /\ UNCHANGED sampleFresh
    /\ NoKeys

(***************************************************************************)
(* The caller goes on to its next call: the ended operation's locals and   *)
(* what was observed of it are dropped.                                    *)
(***************************************************************************)
CallerContinues ==
    /\ pc = "returned"
    /\ pc' = "idle" /\ op' = NoOp /\ result' = "-"
    /\ window' = "none" /\ ownWindow' = FALSE
    /\ loopCount' = 0 /\ allTrackers' = << >> /\ findCalls' = 0
    /\ allMonitors' = << >>
    /\ fullCalib' = FALSE /\ calibDict' = << >> /\ pointDict' = << >>
    /\ SequencerLocalsGone
    /\ rd' = << >>
    /\ sdkCall' = "-" /\ gazeLast' = "-" /\ calLast' = "-"
    /\ nEnter' = 0 /\ nLeave' = 0
    /\ UNCHANGED <<helperVars, subscribed, inCalibMode, lastDelivered>>
    /\ UNCHANGED fnVars
    /\ UNCHANGED sampleFresh
    /\ NoKeys

KeySets == SUBSET {"q", "c"}

Next ==
    \/ \E s \in SerialArgs, f \in DiscoveryResults : SetEyeTracker(s, f)
    \/ \E f \in DiscoveryResults : FindAgain(f)
    \/ FindDone
    \/ \E c \in MonitorCalls, m \in MonitorLists : SetMonitor(c[1], c[2], m)
    \/ \E s \in Samples : Deliver(s)
    \/ \E w \in WinArgs : RunTrackBox(w)
    \/ TrackBoxStart
    \/ \E how \in {"c", "timeout"} : TrackBoxInstruction(how)
    \/ TrackBoxRead
    \/ \E k \in KeySets : TrackBoxPoll(k)
    \/ \E d \in DictArgs, w \in WinArgs : RunValidation(d, w)
    \/ \E o \in {"raises", "works"} : ValidationStart(o)
    \/ ValidationRead
    \/ \E k \in KeySets, o \in {"raises", "works"} : ValidationPoll(k, o)
    \/ \E n \in NumArgs, w \in WinArgs : RunFullCalibration(n, w)
    \/ \E o \in {"raises", "works"} : FullCalibrationClose(o)
    \/ CalibrationEnter
    \/ \E how \in {"c", "timeout"} : CalibrationInstruction(how)
    \/ \E st \in {"success", "failure"} : CollectData(st)
    \/ \E k \in SUBSET {"q"} : PointDone(k)
    \/ \E r \in ComputeResults : ComputeAndApply(r)
    \/ CalibrationCheck
    \/ \E k \in {"q", "c", "1", "2", "3", "4", "5", "6", "7", "8", "9"} : ResultsKey(k)
    \/ DiscardData
    \/ CallerContinues

Spec == Init /\ [][Next]_vars

(***************************************************************************)
(* Properties.                                                             *)
(***************************************************************************)
CalibrationCalls ==
    {"enter_calibration_mode", "collect_data", "compute_and_apply",
     "discard_data", "leave_calibration_mode"}

\* the calibration call `call` may come next after the calibration call `last`
MayFollow(last, call) ==
    CASE call = "enter_calibration_mode" -> last = "-"
      [] call = "collect_data" ->
            last \in {"enter_calibration_mode", "collect_data", "discard_data"}
      [] call = "compute_and_apply" -> last = "collect_data"
      [] call = "discard_data" -> last \in {"compute_and_apply", "discard_data"}
      [] call = "leave_calibration_mode" ->
            last \in {"collect_data", "compute_and_apply"}
      [] OTHER -> FALSE

\* the positions inside __drawCalibrationScreen after enter_calibration_mode
SequencerPcs ==
    {"cal_instr", "cal_point", "cal_point_done", "cal_compute", "cal_check",
     "cal_results", "cal_discard"}

NoDuplicates(s) == \A i, j \in DOMAIN s : i # j => s[i] # s[j]

\* the coordinates of the points with these labels
PointsOf(keys) == {EntryOf(calibDict, k)[2] : k \in keys}

\* C1: the calibration calls of the sequencer come in the documented order.
\* enter_calibration_mode is the first call and is made once; compute_and_apply
\* follows the collect_data calls of its round, which have covered every point
\* of the round; discard_data follows a compute_and_apply that reported success
\* and whose results screen the operator confirmed with a selection, and
\* precedes the next round's collect_data; leave_calibration_mode follows
\* collect_data or compute_and_apply, and no calibration call follows it.
C1_CallOrder ==
    [][sdkCall' \in CalibrationCalls =>
        /\ MayFollow(calLast, sdkCall')
        /\ nEnter' <= 1
        /\ sdkCall' = "compute_and_apply" =>
              collected = Range(Values(redoCalDict))
        /\ sdkCall' = "discard_data" =>
              calibResult.status = "success" /\ selected # {}]_vars

\* C1: a second round is collecting, after the discards of the first
C1_Witness ==
    /\ pc = "cal_point_done"
    /\ calLast = "collect_data"
    /\ discarded # << >>
    /\ nEnter = 1

\* C2: once the sequencer has entered calibration mode and has ended, in
\* whatever way, leave_calibration_mode has been called exactly once and the
\* tracker is not in calibration mode.
C2_LeaveExactlyOnce ==
    (nEnter >= 1 /\ pc \notin SequencerPcs) => (nLeave = 1 /\ ~inCalibMode)

\* C3: in runFullCalibration subscribe_to and unsubscribe_from alternate,
\* beginning with subscribe_to; when the run ends after a subscription, the
\* last of them is unsubscribe_from; and the window is not closed before the
\* validation screen has been shown.
C3_PhaseOrder ==
    [][/\ sdkCall' = "subscribe_to" => gazeLast \in {"-", "unsubscribe_from"}
       /\ sdkCall' = "unsubscribe_from" => gazeLast = "subscribe_to"
       /\ (fullCalib' /\ pc' \in {"returned", "exited"} /\ gazeLast' # "-") =>
              gazeLast' = "unsubscribe_from"
       /\ (fullCalib' /\ pc' \in {"val_subscribe", "val_loop"}) =>
              window' = "open"]_vars

\* C4: setEyeTracker calls find_all_eyetrackers at most 50 times, calls it
\* again only after an empty result, and when the loop ends with an empty
\* result all 50 calls have been made, RuntimeError is raised and the selected
\* device is what it was.
C4_BoundedDiscovery ==
    [][/\ findCalls' <= MaxLoopCount
       /\ (pc = "find_loop" /\ sdkCall' = "find_all_eyetrackers") =>
              (allTrackers = << >> /\ findCalls' = findCalls + 1)
       /\ (pc = "find_loop" /\ pc' = "returned" /\ allTrackers = << >>) =>
              /\ findCalls = MaxLoopCount
              /\ result' = "RuntimeError"
              /\ eyetracker' = eyetracker]_vars

\* C4: all 50 attempts found nothing
C4_Witness ==
    /\ pc = "returned" /\ op.name = "setEyeTracker"
    /\ result = "RuntimeError"
    /\ findCalls = MaxLoopCount /\ allTrackers = << >>

\* C5, as claimed: when a round's computation begins, collect_data has been
\* called as many times as the round has points.
C5_NoRetry == pc = "cal_compute" => collectCalls = Len(redoCalDict)

\* C5, as the code has it: a collect_data call that does not report success is
\* repeated for the same point, and the round goes on to the next point only
\* after a call that reports success; so the calls of a round are its points
\* plus the calls that did not report success.
C5_RetryUntilSuccess ==
    [][/\ (pc = "cal_point" /\ sdkCall' = "collect_data") =>
              IF retries' > retries
              THEN pc' = "cal_point" /\ pointIdx' = pointIdx
              ELSE pc' = "cal_point_done"
       /\ pc' = "cal_compute" =>
              collectCalls' = Len(redoCalDict') + retries']_vars

\* C5: a round with a repeated collect_data call is complete
C5_Witness == pc = "cal_compute" /\ retries > 0 /\ collectCalls > Len(redoCalDict)

Routines == {"runTrackBox", "runValidation", "runFullCalibration"}

\* the call that begins in this step is rejected with exception e: nothing is
\* called, nothing is subscribed, entered or drawn, and the helper is unchanged
Rejected(e) ==
    /\ pc' = "returned" /\ result' = e
    /\ sdkCall' = "-"
    /\ UNCHANGED <<helperVars, envVars>>

\* the arguments of the routine called have the types the routine asks for
ArgumentsWellTyped(o) ==
    CASE o.name = "runTrackBox" -> TRUE
      [] o.name = "runValidation" ->
            /\ o.arg1 \in {None, "<dict>"}
            /\ o.arg2 \in {None, "<Window>"}
      [] o.name = "runFullCalibration" ->
            /\ o.arg1 \in {None, "5", "9", "5.0", "9.0"}
            /\ o.arg2 \in {None, "<Window>"}
      [] OTHER -> FALSE

\* C6, as claimed: called with no eye tracker selected or no monitor set, each
\* of the three routines raises RuntimeError, before anything is subscribed,
\* entered or drawn, and leaves the helper as it was.
C6_RuntimeErrorFirst ==
    [][(pc = "idle" /\ op'.name \in Routines
            /\ (eyetracker = None \/ win = << >>)) =>
        Rejected("RuntimeError")]_vars

\* C6, as the code has it: called with no eye tracker selected or no monitor
\* set, each of the three routines raises an exception before anything is
\* subscribed, entered or drawn, and leaves the helper as it was; the exception
\* is RuntimeError, except that runValidation and runFullCalibration check the
\* types (and the point count) of their arguments first and raise TypeError or
\* ValueError for those.
C6_AbortBeforeSideEffects ==
    [][(pc = "idle" /\ op'.name \in Routines
            /\ (eyetracker = None \/ win = << >>)) =>
        /\ \E e \in {"RuntimeError", "TypeError", "ValueError"} : Rejected(e)
        /\ ArgumentsWellTyped(op') => Rejected("RuntimeError")]_vars

\* C6: runValidation was called with a monitor but no eye tracker, and raised
\* RuntimeError (from __startGazeData, before subscribing)
C6_Witness ==
    /\ pc = "returned" /\ op.name = "runValidation"
    /\ eyetracker = None /\ win # << >>
    /\ result = "RuntimeError"
    /\ ~subscribed /\ ~tracking /\ window = "none"

\* dimensions is given and is something else than a tuple of two numbers
NotTwoNumbers(d) == d \in {"[1920, 1080]", "(1920,)", "('a', 1080)"}

\* dimensions is a tuple of two numbers, one of them not positive
NotPositive(d) == d \in {"(0, 1080)", "(1920, -1)"}

\* C7, as claimed: a non-string serial makes setEyeTracker raise TypeError
\* before any discovery call; dimensions that are no 2-tuple of numbers make
\* setMonitor raise TypeError, and non-positive ones ValueError; a non-numeric
\* point count or a calibWin that is no window makes runFullCalibration raise
\* TypeError; every time the helper is left as it was.
C7_TypeErrorFirst ==
    [][pc = "idle" =>
        /\ (op'.name = "setEyeTracker" /\ op'.arg1 = "<int 42>") =>
              Rejected("TypeError")
        /\ (op'.name = "setMonitor" /\ NotTwoNumbers(op'.arg2)) =>
              Rejected("TypeError")
        /\ (op'.name = "setMonitor" /\ NotPositive(op'.arg2)) =>
              Rejected("ValueError")
        /\ (op'.name = "runFullCalibration"
                /\ (op'.arg1 = "'5'" \/ op'.arg2 = "<str 'win'>")) =>
              Rejected("TypeError")]_vars

\* C7, as the code has it: the same, except that setMonitor first asks the
\* toolkit for its monitors and raises RuntimeError when there is none, and
\* runFullCalibration raises ValueError for a numeric point count other than
\* 5 and 9 before it looks at calibWin.
C7_ArgumentChecksInOrder ==
    [][pc = "idle" =>
        /\ (op'.name = "setEyeTracker" /\ op'.arg1 = "<int 42>") =>
              Rejected("TypeError")
        /\ (op'.name = "setMonitor" /\ allMonitors' = << >>) =>
              Rejected("RuntimeError")
        /\ (op'.name = "setMonitor" /\ allMonitors' # << >>
                /\ NotTwoNumbers(op'.arg2)) =>
              Rejected("TypeError")
        /\ (op'.name = "setMonitor" /\ allMonitors' # << >>
                /\ NotPositive(op'.arg2)) =>
              Rejected("ValueError")
        /\ (op'.name = "runFullCalibration" /\ op'.arg1 = "'5'") =>
              Rejected("TypeError")
        /\ (op'.name = "runFullCalibration" /\ op'.arg1 = "7") =>
              Rejected("ValueError")
        /\ (op'.name = "runFullCalibration" /\ op'.arg1 \notin {"'5'", "7"}
                /\ op'.arg2 = "<str 'win'>") =>
              Rejected("TypeError")]_vars

\* C7: setMonitor has rejected a non-positive height, the helper having a
\* monitor from an earlier call
C7_Witness ==
    /\ pc = "returned" /\ op.name = "setMonitor"
    /\ op.arg2 = "(1920, -1)" /\ allMonitors # << >>
    /\ result = "ValueError"
    /\ monitorName = "testMonitor" /\ win = DefaultScreen

\* C8: the slot holds the sample of the latest delivery, and what a read of the
\* slot by a draw loop returns is the sample of the latest delivery before it.
C8_LatestSample ==
    [][/\ gazeData' = lastDelivered'
       /\ (Len(rd') = Len(rd) + 1 /\ rd'[Len(rd')] # "checked") =>
              rd'[Len(rd')] = lastDelivered]_vars

\* C8: two samples were delivered while a draw loop was reading: the earlier
\* one was read before the later one replaced it
C8_Witness ==
    /\ lastDelivered = "g2" /\ gazeData = "g2"
    /\ \E i \in DOMAIN rd : rd[i] = "g1"

\* C9: the results screen is left for the discards only with a selection; the
\* discard_data calls before a round are one for each selected point and no
\* other; the round calls collect_data for selected points only and, when its
\* computation begins, has called it for every one of them; and when the
\* screen is confirmed with no selection, the call made is
\* leave_calibration_mode and the sequencer has returned.
C9_DiscardAndRetryExact ==
    [][/\ (pc = "cal_results" /\ pc' = "cal_discard") =>
              (selected # {} /\ discarded' = << >>)
       /\ sdkCall' = "discard_data" =>
              /\ discarded'[Len(discarded')] \in PointsOf(selected)
              /\ NoDuplicates(discarded')
       /\ (pc = "cal_discard" /\ pc' = "cal_point") =>
              Range(discarded') = PointsOf(selected)
       /\ (sdkCall' = "collect_data" /\ selected # {}) =>
              collected' \subseteq PointsOf(selected)
       /\ (pc' = "cal_compute" /\ selected # {}) =>
              collected' = PointsOf(selected)
       /\ (pc = "cal_results" /\ selected = {}
                /\ pc' \notin {"cal_results", "exited"}) =>
              /\ sdkCall' = "leave_calibration_mode"
              /\ pc' = "val_subscribe"]_vars

\* C9: two points were selected, discarded and collected again
C9_Witness ==
    /\ pc = "cal_compute"
    /\ Cardinality(selected) = 2 /\ Len(discarded) = 2
    /\ collected = PointsOf(selected)

FiveSet == {<<1, 1>>, <<9, 1>>, <<5, 5>>, <<1, 9>>, <<9, 9>>}
NineSet == {<<x, y>> : x \in {1, 5, 9}, y \in {1, 5, 9}}

\* C10: runFullCalibration, called with a tracker and a monitor set and a
\* usable calibWin, goes on with the five points when numCalibPoints is
\* omitted or equals 5 and with the nine points of the grid when it equals 9;
\* every other number is rejected with ValueError.
C10_FiveOrNinePoints ==
    [][(pc = "idle" /\ op'.name = "runFullCalibration") =>
        /\ (op'.arg1 \in {None, "5", "5.0"} /\ op'.arg2 \in {None, "<Window>"}
                /\ eyetracker # None /\ win # << >>) =>
              (pc' = "tb_subscribe" /\ Range(Values(calibDict')) = FiveSet)
        /\ (op'.arg1 \in {"9", "9.0"} /\ op'.arg2 \in {None, "<Window>"}
                /\ eyetracker # None /\ win # << >>) =>
              (pc' = "tb_subscribe" /\ Range(Values(calibDict')) = NineSet)
        /\ op'.arg1 = "7" => Rejected("ValueError")]_vars

(***************************************************************************)
(* C11                                                                     *)
(***************************************************************************)
\* v is a / b truncated towards zero, for b > 0
IsTruncated(v, a, b) ==
    IF a >= 0 THEN v * b <= a /\ a < (v + 1) * b
    ELSE (v - 1) * b < a /\ a <= v * b

AdaApplied == fnIn.fn = "ada2PsychoPix" /\ fnOut # NoOutcome

AdaInside ==
    /\ fnIn.kind = "tuple"
    /\ fnIn.x \in 0..Eighths /\ fnIn.y \in 0..Eighths

\* the parts of the claim that do not depend on the parity of W and H:
\* RuntimeError without a monitor, ValueError outside [0, 1], otherwise
\* (trunc(x*W - W/2), trunc(-(y*H - H/2))), the centre at (0, 0) and the
\* result within [-W/2, W/2] x [-H/2, H/2]
AdaFormulaAndErrors ==
    AdaApplied =>
        /\ win = << >> => fnOut.status = "RuntimeError"
        /\ win # << >> /\ fnIn.kind = "tuple" /\ ~AdaInside
              => fnOut.status = "ValueError"
        /\ win # << >> /\ AdaInside =>
              /\ fnOut.status = "returned"
              /\ IsTruncated(fnOut.value[1],
                             2 * fnIn.x * win[1] - Eighths * win[1], 2 * Eighths)
              /\ IsTruncated(fnOut.value[2],
                             Eighths * win[2] - 2 * fnIn.y * win[2], 2 * Eighths)
              /\ (fnIn.x = 4 /\ fnIn.y = 4 => fnOut.value = <<0, 0>>)
              /\ 0 - win[1] <= 2 * fnOut.value[1] /\ 2 * fnOut.value[1] <= win[1]
              /\ 0 - win[2] <= 2 * fnOut.value[2] /\ 2 * fnOut.value[2] <= win[2]

AdaCorner == AdaApplied /\ win # << >> /\ AdaInside /\ fnIn.x = 0 /\ fnIn.y = 0

\* C11 as stated: besides the formula, the errors and the range, (0, 0) maps
\* to the upper-left corner (-W/2, H/2)
C11_CornerIsHalfSize ==
    /\ AdaFormulaAndErrors
    /\ AdaCorner => 2 * fnOut.value[1] = 0 - win[1] /\ 2 * fnOut.value[2] = win[2]

\* C11: for a monitor of W x H and 0 <= x, y <= 1 the call returns
\* (trunc(x*W - W/2), trunc(-(y*H - H/2))): (0.5, 0.5) maps to (0, 0), the
\* result lies in [-W/2, W/2] x [-H/2, H/2], and (0, 0) maps to
\* (trunc(-W/2), trunc(H/2)), which is the corner (-W/2, H/2) when W and H are
\* even; a coordinate outside [0, 1] raises ValueError and no monitor raises
\* RuntimeError
C11_PixelConversion ==
    /\ AdaFormulaAndErrors
    /\ AdaCorner =>
          /\ IsTruncated(fnOut.value[1], 0 - win[1], 2)
          /\ IsTruncated(fnOut.value[2], win[2], 2)
          /\ (win[1] % 2 = 0 /\ win[2] % 2 = 0
                => 2 * fnOut.value[1] = 0 - win[1] /\ 2 * fnOut.value[2] = win[2])

\* the corner of a monitor of odd width and height has been converted
C11_Witness == AdaCorner /\ win = <<1281, 721>> /\ fnOut.value = <<0 - 640, 360>>

(***************************************************************************)
(* C12                                                                     *)
(***************************************************************************)
\* runFullCalibration is past lines 1301-1309, which ran because the
\* computation did not succeed: only they close the window of a full
\* calibration and let the routine go on
AfterFailedCalibration ==
    /\ fullCalib /\ window = "closed"
    /\ calLast = "leave_calibration_mode"
    /\ pc \in {"val_subscribe", "val_loop", "rfc_close"}

\* C12: once compute_and_apply has not reported success, runFullCalibration
\* starts no gaze subscription and never draws the validation screen
C12_ValidationOnlyAfterSuccess ==
    [][AfterFailedCalibration => sdkCall' # "subscribe_to" /\ pc' # "val_loop"]_vars

(***************************************************************************)
(* C13                                                                     *)
(***************************************************************************)
\* the step draws to the window and flips it, or closes it: an iteration of
\* a draw loop past its reads (lines 726-821, 867-895), or the closing
\* message of lines 1460-1465
WindowOperation ==
    \/ pc = "tb_loop" /\ Len(rd) = TrackBoxReads /\ rd' = << >>
    \/ pc = "val_loop" /\ Len(rd) = ValidationReads /\ rd' = << >>
    \/ pc = "rfc_close" /\ pc' # "rfc_close"

\* C13: no draw, flip or further close is made on a window that has been
\* closed
C13_NoUseAfterClose == [][window = "closed" => ~WindowOperation]_vars

(***************************************************************************)
(* C14                                                                     *)
(***************************************************************************)
SetEyeTrackerEnded ==
    pc = "returned" /\ op.name = "setEyeTracker" /\ IsStr(op.arg1)

\* C14: when setEyeTracker(serial) returns normally the selected device has
\* that serial number, and when no discovered device has it the call raises
\* RuntimeError, whatever was selected before
C14_SelectedIsRequested ==
    SetEyeTrackerEnded =>
        /\ result = "ok" => eyetracker = op.arg1
        /\ (\A i \in 1..Len(allTrackers) : allTrackers[i] # op.arg1)
              => result = "RuntimeError"

(***************************************************************************)
(* C15                                                                     *)
(***************************************************************************)
\* the labels of the entries of a list of (label, coordinates) pairs
LabelsOf(l) == {l[i][1] : i \in 1..Len(l)}

\* C15: on the results screen a number key toggles the selection of its
\* point.  The selection is empty when the screen appears; while it is shown
\* holdRedoDict and holdColorPoints hold the same points, which are those
\* whose key was pressed an odd number of times; at the first 'c' the redo
\* dict returned holds exactly these points, each once and with its own
\* coordinates
C15_OddPressesSelected ==
    [][ /\ (pc # "cal_results" /\ pc' = "cal_results"
              => holdRedoDict' = << >> /\ holdColorPoints' = << >>)
        /\ (pc' = "cal_results"
              => /\ LabelsOf(holdRedoDict') = selected'
                 /\ Len(holdRedoDict') = Cardinality(selected')
                 /\ Len(holdColorPoints') = Len(holdRedoDict')
                 /\ Range(holdColorPoints')
                       = {IntOf(holdRedoDict'[i][1]) : i \in 1..Len(holdRedoDict')})
        /\ (pc = "cal_results" /\ pc' = "cal_discard"
              => /\ LabelsOf(redoCalDict') = selected
                 /\ Len(redoCalDict') = Cardinality(selected)
                 /\ Range(redoCalDict') \subseteq Range(calibDict))
        /\ (pc = "cal_results" /\ pc' = "val_subscribe" => selected = {})
      ]_vars

\* two points were selected on the results screen and 'c' has returned them
C15_Witness ==
    /\ pc = "cal_discard" /\ discardIdx = 1
    /\ Len(redoCalDict) = 2 /\ LabelsOf(redoCalDict) = selected
    /\ Len(calibDict) = 5

(***************************************************************************)
(* C16                                                                     *)
(***************************************************************************)
\* the first round of data collection: nothing has been selected for a redo
FirstRound == selected = {}

\* C16: calibDict is a permutation of the five or of the nine points, each
\* label with its own coordinates, and stays so while runFullCalibration
\* runs; in the first round the collect_data calls take the points one after
\* another in calibDict's order, so that the round has targeted exactly the
\* points of calibDict, and runValidation is given the same points
C16_FirstRoundIsPermutation ==
    [][ /\ (pc = "idle" /\ fullCalib' =>
              /\ Range(calibDict') \in {Range(FivePoints), Range(NinePoints)}
              /\ NoDuplicates(calibDict'))
        /\ (fullCalib /\ pc' # "idle" => calibDict' = calibDict)
        /\ (sdkCall' = "collect_data" /\ FirstRound =>
              collected' = {Values(calibDict)[i] : i \in 1..pointIdx})
        /\ (pc = "cal_point_done" /\ pc' = "cal_point" /\ FirstRound =>
              pointIdx' = pointIdx + 1)
        /\ (pc' = "cal_compute" /\ FirstRound =>
              /\ collected' = Range(Values(calibDict))
              /\ Cardinality(collected') = Len(calibDict))
        /\ (fullCalib /\ pc' = "val_subscribe" => pointDict' = calibDict)
      ]_vars

\* the first round over the five points in reversed order is complete
C16_Witness ==
    /\ pc = "cal_compute" /\ FirstRound
    /\ calibDict = Reverse(FivePoints)
    /\ collected = Range(Values(FivePoints))

(***************************************************************************)
(* C17                                                                     *)
(***************************************************************************)
\* C17: __getCalibrationData goes on to the next point only after a
\* collect_data call for the point it is at has reported success, a call
\* that has not reported success leaves it at the point, and
\* compute_and_apply is called only when every point of the round has had a
\* successful collect_data
C17_AdvanceOnlyAfterSuccess ==
    [][ /\ (sdkCall' = "collect_data" =>
              /\ pc = "cal_point" /\ pointIdx' = pointIdx
              /\ (retries' # retries => pc' = "cal_point")
              /\ (retries' = retries => pc' = "cal_point_done"))
        /\ (pc \in {"cal_point", "cal_point_done"} /\ pointIdx' > pointIdx =>
              /\ pc = "cal_point_done" /\ calLast = "collect_data"
              /\ Values(redoCalDict)[pointIdx] \in collected
              /\ pointIdx' = pointIdx + 1)
        /\ (sdkCall' = "compute_and_apply" =>
              /\ pointIdx = Len(redoCalDict) + 1
              /\ collected = Range(Values(redoCalDict))
              /\ collectCalls - retries = Len(redoCalDict))
      ]_vars

\* collect_data has failed once and succeeded once, and the second point is
\* being collected
C17_Witness ==
    /\ pc = "cal_point" /\ pointIdx = 2
    /\ collectCalls = 2 /\ retries = 1
    /\ calLast = "collect_data"

(***************************************************************************)
(* C18                                                                     *)
(***************************************************************************)
\* runTrackBox or runValidation has subscribed and has ended
EndedAfterSubscribing ==
    /\ op.name \in {"runTrackBox", "runValidation"}
    /\ pc \in {"returned", "exited"}
    /\ gazeLast # "-"

\* C18: whichever way runTrackBox or runValidation ends after it has
\* subscribed, unsubscribe_from has been called and tracking is False
C18_SubscriptionReleased ==
    EndedAfterSubscribing =>
        gazeLast = "unsubscribe_from" /\ ~subscribed /\ ~tracking

(***************************************************************************)
(* C19                                                                     *)
(***************************************************************************)
\* C19: tracking is True exactly when the subscription is active,
\* subscribe_to is never called while it is active and unsubscribe_from never
\* while it is not
C19_TrackingMirrorsSubscription ==
    [][ /\ tracking' = subscribed'
        /\ (sdkCall' = "subscribe_to" => ~subscribed)
        /\ (sdkCall' = "unsubscribe_from" => subscribed) ]_vars

(***************************************************************************)
(* C20                                                                     *)
(***************************************************************************)
\* C20: while runFullCalibration runs the gaze subscription is never active
\* with the tracker in calibration mode
C20_StreamingExcludesCalibration ==
    (op.name = "runFullCalibration" /\ pc # "idle") => ~(subscribed /\ inCalibMode)

(***************************************************************************)
(* C21                                                                     *)
(***************************************************************************)
\* C21: every sample a draw loop reads from the slot was delivered after the
\* most recent subscribe_to, never left there by an earlier subscription
C21_NoStaleSample ==
    [][(Len(rd') = Len(rd) + 1 /\ rd'[Len(rd')] # "checked") => sampleFresh]_vars

(***************************************************************************)
(* C22                                                                     *)
(***************************************************************************)
\* C22: the samples one iteration of the track-box loop has read from the
\* slot are one and the same sample
C22_OneSamplePerIteration ==
    pc = "tb_loop" =>
        \A i, j \in DOMAIN rd : (rd[i] # "checked" /\ rd[j] # "checked") => rd[i] = rd[j]

(***************************************************************************)
(* C23                                                                     *)
(***************************************************************************)
\* the valid ones among the samples, in arrival order
RECURSIVE ValidOnes(_)
ValidOnes(h) ==
    IF h = << >> THEN << >>
    ELSE IF h[1] = invalidObject THEN ValidOnes(Tail(h))
    ELSE <<h[1]>> \o ValidOnes(Tail(h))

\* l is what s ends with
IsSuffix(l, s) ==
    /\ Len(l) <= Len(s)
    /\ \A i \in 1..Len(l) : l[i] = s[Len(s) - Len(l) + i]

SmoothingCalled == fnIn.fn = "smoothing" /\ history # << >>

\* C23: after every call of __smoothing on a list that was empty at first,
\* the list holds at most 5 items, the smoothing function was applied to at
\* most 6 items, and the list is the most recent of the valid samples, in the
\* order they arrived
C23_SmoothingWindowBounded ==
    SmoothingCalled =>
        /\ Len(objectList) <= 5
        /\ applied <= 6
        /\ IsSuffix(objectList, ValidOnes(history))

\* the list was full and an invalid sample has removed its oldest item
C23_Witness ==
    /\ SmoothingCalled
    /\ Len(ValidOnes(history)) = 7
    /\ history[Len(history)] = invalidObject
    /\ Len(objectList) = 4 /\ applied = 4

(***************************************************************************)
(* C24                                                                     *)
(***************************************************************************)
\* the samples at the end of h that are invalid
RECURSIVE InvalidRun(_)
InvalidRun(h) ==
    IF h = << >> \/ h[Len(h)] # invalidObject THEN 0
    ELSE 1 + InvalidRun(SubSeq(h, 1, Len(h) - 1))

\* C24: __smoothing returns the invalid marker exactly when the list is empty
\* after the current sample has been applied; a valid sample is added and
\* gives the average of the list, an invalid one removes the oldest item and
\* adds none, and after 5 invalid samples in a row the result is the invalid
\* marker
C24_InvalidExactlyWhenEmpty ==
    [][(fnIn.fn = "smoothing" /\ history' # history) =>
        LET cur == history'[Len(history')] IN
        /\ IsInvalidObject(fnOut'.value) <=> applied' = 0
        /\ cur # invalidObject =>
              /\ applied' = Len(objectList) + 1
              /\ fnOut'.value = <<Sum(objectList) + cur, applied'>>
              /\ ~IsInvalidObject(fnOut'.value)
        /\ cur = invalidObject =>
              /\ objectList' = (IF objectList = << >> THEN << >> ELSE Tail(objectList))
              /\ applied' = Len(objectList')
        /\ InvalidRun(history') >= 5 => IsInvalidObject(fnOut'.value)
      ]_vars

\* five invalid samples after six valid ones: the marker is returned
C24_Witness ==
    /\ SmoothingCalled
    /\ InvalidRun(history) = 5 /\ Len(history) = 11
    /\ IsInvalidObject(fnOut.value) /\ objectList = << >>

(***************************************************************************)
(* C25                                                                     *)
(***************************************************************************)
\* C25: the instruction screen of the track box is left for the eye-position
\* loop, and that of the sequencer for data collection, only when 'c' has
\* been pressed
C25_InstructionLeftOnlyByC ==
    [][ \/ pc = "tb_instr" /\ pc' = "tb_loop"
        \/ pc = "cal_instr" /\ pc' = "cal_point"
        => "c" \in keysSeen' ]_vars

(***************************************************************************)
(* C26                                                                     *)
(***************************************************************************)
ReleaseCalls == {"unsubscribe_from", "leave_calibration_mode"}

RoutineReturned ==
    /\ pc = "returned" /\ gazeLast # "-"
    /\ op.name \in {"runTrackBox", "runValidation"}

WindowGiven == IF op.name = "runTrackBox" THEN op.arg1 ELSE op.arg2

\* C27: runTrackBox and runValidation, given a window and left with 'c',
\* return with the window open; given none, they make their own window,
\* which is closed when they return
C27_WindowOwnership ==
    RoutineReturned =>
        /\ (WindowGiven # None /\ result = "ok") => (window = "open" /\ ~ownWindow)
        /\ WindowGiven = None => (window = "closed" /\ ownWindow)

\* runValidation was called without a window and has returned after 'c'
C27_Witness ==
    /\ RoutineReturned /\ op.name = "runValidation"
    /\ WindowGiven = None /\ result = "ok"
    /\ window = "closed" /\ ownWindow

(***************************************************************************)
(* C28                                                                     *)
(***************************************************************************)
\* C28: the mean eye positions of a calibration result that the results
\* screen converts lie on the display area, whatever the tracker reports, so
\* that the conversion does not raise while the results screen is made
C28_ConversionNeverRaises ==
    [][(pc = "cal_check" /\ calibResult.status = "success" /\ calibResult.drawable) =>
        /\ calibResult.mean[1] \in 0..Eighths /\ calibResult.mean[2] \in 0..Eighths
        /\ result' # "ValueError"]_vars

====
